---- MODULE Spec2Model ----
(***************************************************************************)
(* Model of the log manager of Amqp-prtcl/log: a bounded channel of        *)
(* managerEntry items fed by concurrent Logger.Log / Logger.Close callers  *)
(* and drained by one worker goroutine that delivers each entry to the     *)
(* registered outputs under the manager mutex.                             *)
(*                                                                         *)
(* Every shared-memory operation of the Go code (atomic load / store,      *)
(* channel send / receive / close, mutex lock, a call into an Output) is   *)
(* one action, so that every interleaving the Go scheduler can produce is  *)
(* a behaviour of Spec.  A Go panic that nobody recovers ends the process: *)
(* it sets panicked and no further step is taken.                          *)
(***************************************************************************)
EXTENDS Integers, Sequences, FiniteSets, TLC

\* ------------------------------------------------------------------ bounds
NumProducers == 2      \* Logger.Log calls (each builds one LogEntry)
NumClosers   == 2      \* Logger.Close calls
NumDest      == 2      \* distinct Output values
MaxOutputs   == 1      \* registrations made before the calls (InitAdded)
MaxCalls     == 3      \* AddOutput / RemoveOutput / Lock calls (SpecReg)
NumSeq       == 12     \* Log calls made in sequence by one goroutine (SpecLock)
NumManagers  == 2      \* managers that one Output is added to (SpecShare)
MaxShareLogs == 2      \* records each of them delivers to it (SpecShare)
MaxRenderOutputs == 3  \* outputs registered for a rendering pass (SpecRender)
MaxCacheAdds == 3      \* AddCompiled calls on one LogEntry (SpecCache)
MaxLevelOutputs == 2   \* outputs whose log level is being set (SpecLevel)
MaxFieldOutputs == 2   \* JSON outputs given field flags (SpecFields)
MaxLifeCalls == 6      \* OnAdd / LogClose calls on one Output (SpecLife)

\* ------------------------------------------------------- program constants
ChanCap == 10          \* make(chan managerEntry, 10)
T_Text  == 0           \* OutputType: T_Text = iota
T_JSON  == 1
L_Debug == 0           \* LogLevel: L_Debug = iota
L_Info  == 1
L_Warn  == 2
L_Error == 3
L_Fatal == 4

Producers == 1..NumProducers
Closers   == 1..NumClosers
Dest      == 1..NumDest
Managers  == 1..NumManagers

\* What Output.Log returns to the worker: nil, an io error, ErrOutputClosed.
LogResults == {"nil", "ioerr", "ErrOutputClosed"}
\* What CloseFunc returns.
CloseResults == {"nil", "err"}

\* Holders of manager.mu.
Free        == <<"free", 0>>
ByWorker    == <<"worker", 0>>
ByCaller    == <<"caller", 0>>
ByCloser(c) == <<"closer", c>>

VARIABLES
    outputs,    \* manager.outputs: sequence of Dest
    mu,         \* manager.mu: Free or its holder
    b,          \* manager.b: the closed flag
    ch,         \* manager.ch: buffered items, each [entry, done]
    chClosed,   \* close(m.ch) has run
    doneClosed, \* the done channels that have been closed
    enq,        \* records in the order their send on m.ch completed
    ppc, pblock,        \* log calls: position, block argument
    cpc, ci,    \* closers: position, index of the LogClose loop
    wpc, we, wi, rm, res, \* worker: position, item e, loop index, rm, results
    apc, ad, ncalls,    \* registry caller: position, output being added, calls
    add,        \* Output.add: the add-reference count of each output
    onAdds,     \* number of OnAdd calls made on each output
    released,   \* number of CloseFunc invocations on each output
    delivered,  \* per output: the records its Log was called with, in order
    closeLog,   \* the LogClose calls Close made: <<closer, output, result>>
    panicked,   \* an unrecovered panic ended the process
    qpc, qn,    \* a goroutine logging in sequence: position, records sent
    sadd,       \* the add field of an Output shared by several managers
    sreleased,  \* number of CloseFunc invocations on the shared Output
    mpc, mtmp,  \* per manager sharing it: position, the value of add it loaded
    mlogs,      \* per manager sharing it: delivery calls it has made
    heap,       \* the byte slices the buffer pointers point to, by pointer
    pool,       \* the pointers that sit in the sync.Pool
    bufLog,     \* accesses to the slices: <<"get"|"put"|"read"|"write", ptr>>
    compiled,   \* LogEntry.Compiled of the entry: [flag, kind, buf]
    addLog,     \* the AddCompiled calls made on the entry: [flag, kind, buf]
    got,        \* what the last direct GetCompiled call was asked and returned
    rentry,     \* the LogEntry of the rendering pass
    routs,      \* the outputs of the rendering pass, in registry order
    rpc, rpos,  \* rendering pass: position, index of the next output
    wrote,      \* per output of the pass: whether it rendered, what it wrote
    fclosed,    \* FileOutput.f of each output: the file has been closed
    ffails,     \* the outputs whose f.Write was made on a closed file
    lcalls      \* the OnAdd and LogClose calls made on one Output, in order

vars == <<outputs, mu, b, ch, chClosed, doneClosed, enq,
          ppc, pblock, cpc, ci, wpc, we, wi, rm, res,
          apc, ad, ncalls, add, onAdds, released, delivered, closeLog,
          panicked, qpc, qn, sadd, sreleased, mpc, mtmp, mlogs,
          heap, pool, bufLog, compiled, addLog, got, rentry, routs, rpc,
          rpos, wrote, fclosed, ffails, lcalls>>

prodVars   == <<ppc, pblock>>
closerVars == <<cpc, ci>>
workerVars == <<wpc, we, wi, rm, res>>
callerVars == <<apc, ad, ncalls>>
outVars    == <<add, onAdds, released, delivered, closeLog>>
seqVars    == <<qpc, qn>>
shareVars  == <<sadd, sreleased, mpc, mtmp, mlogs>>
bufVars    == <<heap, pool, bufLog, compiled, addLog>>
passVars   == <<rentry, routs, rpc, rpos, wrote>>
cacheVars  == <<bufVars, got, passVars>>
fileVars   == <<fclosed, ffails, lcalls>>
extVars    == <<seqVars, shareVars, cacheVars, fileVars>>
mgrState   == <<outputs, mu, b, ch, chClosed, doneClosed, enq, prodVars,
               closerVars, workerVars, callerVars, outVars>>
mgrVars    == <<mgrState, panicked>>

\* Registrations of output d in a registry.
Count(outs, d) == Cardinality({i \in 1..Len(outs) : outs[i] = d})

NilEntry == [entry |-> 0, done |-> 0]

\* managerEntry{entry: entry, done: nil or make(chan struct{})}
\* The done channel of a record is named by the record id, the one of a
\* drain marker by the negated closer id.
LogItem(r, block) == [entry |-> r, done |-> IF block THEN r ELSE 0]
DrainMarker(c)    == [entry |-> 0, done |-> 0 - c]

\* newManager(), followed by AddOutput calls that make the registry outs.
MgrInit(outs) ==
    /\ outputs = outs
    /\ mu = Free
    /\ b = FALSE
    /\ ch = <<>>
    /\ chClosed = FALSE
    /\ doneClosed = {}
    /\ enq = <<>>
    /\ ppc = [p \in Producers |-> "idle"]
    /\ pblock = [p \in Producers |-> FALSE]
    /\ cpc = [c \in Closers |-> "idle"]
    /\ ci = [c \in Closers |-> 0]
    /\ wpc = "recv"
    /\ we = NilEntry
    /\ wi = 0
    /\ rm = <<>>
    /\ res = <<>>
    /\ apc = "idle"
    /\ ad = 0
    /\ ncalls = 0
    /\ add = [d \in Dest |-> Count(outs, d)]
    /\ onAdds = [d \in Dest |-> Count(outs, d)]
    /\ released = [d \in Dest |-> 0]
    /\ delivered = [d \in Dest |-> <<>>]
    /\ closeLog = <<>>
    /\ panicked = FALSE

\* No goroutine that logs in sequence has started.
SeqInit ==
    /\ qpc = "idle"
    /\ qn = 0

\* No file of a FileOutput has been closed, no call was made on the Output.
FileInit ==
    /\ fclosed = [d \in Dest |-> FALSE]
    /\ ffails = {}
    /\ lcalls = <<>>

\* An Output that has been added to no manager, and the managers it will be
\* added to, as NewLogger() returns them.
ShareInit ==
    /\ sadd = 0
    /\ sreleased = 0
    /\ mpc = [m \in Managers |-> "new"]
    /\ mtmp = [m \in Managers |-> 0]
    /\ mlogs = [m \in Managers |-> 0]

\* &LogEntry{...} as Logger.Log builds it: no prefix or field is rendered by
\* the flags of FlagChoices, so one value of each stands for all.
NilLogEntry == [level |-> L_Debug, msg |-> <<>>, prefixes |-> <<>>,
                fields |-> <<>>]
NoGet == [flag |-> {}, kind |-> T_Text, ok |-> FALSE, buf |-> 0]

\* An empty pool and a LogEntry e with Compiled: []Compiled{}, about to be
\* delivered to the outputs outs (none: no pass is made).
CacheInitWith(e, outs) ==
    /\ heap = <<>>
    /\ pool = {}
    /\ bufLog = <<>>
    /\ compiled = <<>>
    /\ addLog = <<>>
    /\ got = NoGet
    /\ rentry = e
    /\ routs = outs
    /\ rpc = IF outs = <<>> THEN "idle" ELSE "pass"
    /\ rpos = IF outs = <<>> THEN 0 ELSE 1
    /\ wrote = <<>>

InitWith(outs) ==
    /\ MgrInit(outs)
    /\ SeqInit
    /\ ShareInit
    /\ FileInit
    /\ CacheInitWith(NilLogEntry, <<>>)

\* The manager as newManager() returns it.
Init == InitWith(<<>>)

\* The registries that up to MaxOutputs AddOutput calls build. No code tells
\* one Output from another, so the outputs are numbered in the order of their
\* first registration.
Registries ==
    {outs \in UNION {[1..n -> Dest] : n \in 0..MaxOutputs} :
        \A i \in 1..Len(outs) : \A d \in 1..(outs[i] - 1) :
            \E j \in 1..(i - 1) : outs[j] = d}

\* A manager whose outputs were added before the first Log or Close call.
InitAdded == \E outs \in Registries : InitWith(outs)

\* ----------------------------------------------------------------- helpers
\* No goroutine has panicked: the process is alive.
Running == ~panicked

Last(s) == s[Len(s)]
Front(s) == SubSeq(s, 1, Len(s) - 1)

\* The worker's compaction loop over rm (Go indices, from 0):
\*   m.outputs[i-r] = m.outputs[len(m.outputs)-1]
\*   m.outputs = m.outputs[:len(m.outputs)-1]; r++
RECURSIVE Evict(_, _, _)
Evict(outs, idx, r) ==
    IF idx = <<>> THEN outs
    ELSE LET j == (Head(idx) - r) + 1
             moved == [outs EXCEPT ![j] = Last(outs)]
         IN  Evict(Front(moved), Tail(idx), r + 1)

\* A buggy removal that drops every registration of o.
SwapRemoveAll(outs, o) == SelectSeq(outs, LAMBDA x : x # o)

\* removeOutput's loop: the first i with m.outputs[i] == o is overwritten by
\* the last element and the slice is shortened; no match changes nothing.
SwapRemove(outs, o) ==
    IF \E i \in 1..Len(outs) : outs[i] = o
    THEN LET i == CHOOSE k \in 1..Len(outs) :
                      outs[k] = o /\ \A l \in 1..(k - 1) : outs[l] # o
         IN  Front([outs EXCEPT ![i] = Last(outs)])
    ELSE outs

\* A buggy receive that takes the newest item of the buffer.
RecvNewest(q) == [item |-> Last(q), rest |-> Front(q)]

\* `for e := range m.ch`: a receive takes the oldest item of the buffer.
Recv(q) == [item |-> Head(q), rest |-> Tail(q)]

\* Records of a sequence of records, and the place of one of them.
Range(s) == {s[i] : i \in 1..Len(s)}
Pos(s, r) == CHOOSE i \in 1..Len(s) : s[i] = r

\* The records waiting in the channel buffer.
Queued == {ch[i].entry : i \in 1..Len(ch)} \ {0}

\* The worker has finished the delivery pass of record r: r was sent, has
\* left the channel, and the worker is past m.mu.Unlock() for it.
PassDone(r) ==
    /\ r \in Range(enq)
    /\ r \notin Queued
    /\ ~(we.entry = r /\ wpc \in {"lock", "deliver"})

\* ------------------------------------------------------- manager.log
\* A buggy log that sends without looking at m.b.
LogLoadUnchecked(p) ==
    /\ Running
    /\ UNCHANGED extVars
    /\ ppc[p] = "idle"
    /\ \A q \in Producers : q < p => ppc[q] # "idle"
    /\ \E block \in BOOLEAN :
          /\ pblock' = [pblock EXCEPT ![p] = block]
          /\ ppc' = [ppc EXCEPT ![p] = "send"]
    /\ UNCHANGED <<outputs, mu, b, ch, chClosed, doneClosed, enq,
                   closerVars, workerVars, callerVars, outVars, panicked>>

\* Logger.Log builds the entry, manager.log loads m.b:
\*   if b { return ErrManagerClosed }
\* Log calls, and the records they build, are numbered in the order in which
\* they start (and so are the Close calls below).
LogLoad(p) ==
    /\ Running
    /\ UNCHANGED extVars
    /\ ppc[p] = "idle"
    /\ \A q \in Producers : q < p => ppc[q] # "idle"
    /\ \E block \in BOOLEAN :
          /\ pblock' = [pblock EXCEPT ![p] = block]
          /\ ppc' = [ppc EXCEPT ![p] = IF b THEN "ret_closed" ELSE "send"]
    /\ UNCHANGED <<outputs, mu, b, ch, chClosed, doneClosed, enq,
                   closerVars, workerVars, callerVars, outVars, panicked>>

\* m.ch <- e: panics on a closed channel, blocks while the buffer is full.
LogSend(p) ==
    /\ Running
    /\ UNCHANGED extVars
    /\ ppc[p] = "send"
    /\ IF chClosed
       THEN /\ panicked' = TRUE
            /\ ppc' = [ppc EXCEPT ![p] = "panic"]
            /\ UNCHANGED <<ch, enq>>
       ELSE /\ Len(ch) < ChanCap
            /\ ch' = Append(ch, LogItem(p, pblock[p]))
            /\ enq' = Append(enq, p)
            /\ ppc' = [ppc EXCEPT ![p] = IF pblock[p] THEN "wait" ELSE "ret_ok"]
            /\ UNCHANGED panicked
    /\ UNCHANGED <<outputs, mu, b, chClosed, doneClosed, pblock,
                   closerVars, workerVars, callerVars, outVars>>

\* A buggy blocking call that returns without receiving from e.done.
LogWaitSkipped(p) ==
    /\ Running
    /\ UNCHANGED extVars
    /\ ppc[p] = "wait"
    /\ ppc' = [ppc EXCEPT ![p] = "ret_ok"]
    /\ UNCHANGED <<outputs, mu, b, ch, chClosed, doneClosed, enq,
                   pblock, closerVars, workerVars, callerVars, outVars,
                   panicked>>

\* if block { <-e.done }; return nil
LogWait(p) ==
    /\ Running
    /\ UNCHANGED extVars
    /\ ppc[p] = "wait"
    /\ p \in doneClosed
    /\ ppc' = [ppc EXCEPT ![p] = "ret_ok"]
    /\ UNCHANGED <<outputs, mu, b, ch, chClosed, doneClosed, enq,
                   pblock, closerVars, workerVars, callerVars, outVars,
                   panicked>>

\* ------------------------------------------------------- worker goroutine
\* for e := range m.ch
WorkerRecv ==
    /\ Running
    /\ UNCHANGED extVars
    /\ wpc = "recv"
    /\ ch # <<>>
    /\ we' = Recv(ch).item
    /\ ch' = Recv(ch).rest
    /\ wpc' = IF Recv(ch).item.entry # 0 THEN "lock" ELSE "signal"
    /\ UNCHANGED <<outputs, mu, b, chClosed, doneClosed, enq, prodVars,
                   closerVars, wi, rm, res, callerVars, outVars, panicked>>

\* the range loop ends once the channel is closed and drained
WorkerExit ==
    /\ Running
    /\ UNCHANGED extVars
    /\ wpc = "recv"
    /\ ch = <<>>
    /\ chClosed
    /\ wpc' = "exit"
    /\ UNCHANGED <<outputs, mu, b, ch, chClosed, doneClosed, enq, prodVars,
                   closerVars, we, wi, rm, res, callerVars, outVars, panicked>>

\* rm = rm[:0]; r = 0; m.mu.Lock()
WorkerLock ==
    /\ Running
    /\ UNCHANGED extVars
    /\ wpc = "lock"
    /\ mu = Free
    /\ mu' = ByWorker
    /\ wi' = 1
    /\ rm' = <<>>
    /\ res' = <<>>
    /\ wpc' = "deliver"
    /\ UNCHANGED <<outputs, b, ch, chClosed, doneClosed, enq, prodVars,
                   closerVars, we, callerVars, outVars, panicked>>

\* one iteration of: if output.Log(e.entry) == ErrOutputClosed { rm = append(rm, i) }
WorkerDeliver ==
    /\ Running
    /\ UNCHANGED extVars
    /\ wpc = "deliver"
    /\ wi <= Len(outputs)
    /\ \E r \in LogResults :
          /\ res' = Append(res, r)
          /\ rm' = IF r = "ErrOutputClosed" THEN Append(rm, wi - 1) ELSE rm
    /\ delivered' = [delivered EXCEPT ![outputs[wi]] = Append(@, we.entry)]
    /\ wi' = wi + 1
    /\ UNCHANGED <<outputs, mu, b, ch, chClosed, doneClosed, enq, prodVars,
                   closerVars, wpc, we, callerVars, add, onAdds, released,
                   closeLog, panicked>>

\* the compaction loop, m.mu.Unlock(), and the putBuf loop
WorkerEvict ==
    /\ Running
    /\ UNCHANGED extVars
    /\ wpc = "deliver"
    /\ wi > Len(outputs)
    /\ outputs' = Evict(outputs, rm, 0)
    /\ mu' = Free
    /\ wi' = 0
    /\ rm' = <<>>
    /\ res' = <<>>
    /\ wpc' = "signal"
    /\ UNCHANGED <<b, ch, chClosed, doneClosed, enq, prodVars, closerVars,
                   we, callerVars, outVars, panicked>>

\* if e.done != nil { close(e.done) }
WorkerSignal ==
    /\ Running
    /\ UNCHANGED extVars
    /\ wpc = "signal"
    /\ doneClosed' = IF we.done # 0 THEN doneClosed \cup {we.done} ELSE doneClosed
    /\ we' = NilEntry
    /\ wpc' = "recv"
    /\ UNCHANGED <<outputs, mu, b, ch, chClosed, enq, prodVars, closerVars,
                   wi, rm, res, callerVars, outVars, panicked>>

\* ------------------------------------------------------- manager.Close
\* if b { return ErrManagerClosed }
CloseLoad(c) ==
    /\ Running
    /\ UNCHANGED extVars
    /\ cpc[c] = "idle"
    /\ \A k \in Closers : k < c => cpc[k] # "idle"
    /\ cpc' = [cpc EXCEPT ![c] = IF b THEN "ret_closed" ELSE "store"]
    /\ UNCHANGED <<outputs, mu, b, ch, chClosed, doneClosed, enq, prodVars,
                   ci, workerVars, callerVars, outVars, panicked>>

\* m.b.Store(true)
CloseStore(c) ==
    /\ Running
    /\ UNCHANGED extVars
    /\ cpc[c] = "store"
    /\ b' = TRUE
    /\ cpc' = [cpc EXCEPT ![c] = "send"]
    /\ UNCHANGED <<outputs, mu, ch, chClosed, doneClosed, enq, prodVars,
                   ci, workerVars, callerVars, outVars, panicked>>

\* m.ch <- entry (the drain marker)
CloseSend(c) ==
    /\ Running
    /\ UNCHANGED extVars
    /\ cpc[c] = "send"
    /\ IF chClosed
       THEN /\ panicked' = TRUE
            /\ cpc' = [cpc EXCEPT ![c] = "panic"]
            /\ UNCHANGED ch
       ELSE /\ Len(ch) < ChanCap
            /\ ch' = Append(ch, DrainMarker(c))
            /\ cpc' = [cpc EXCEPT ![c] = "closech"]
            /\ UNCHANGED panicked
    /\ UNCHANGED <<outputs, mu, b, chClosed, doneClosed, enq, prodVars,
                   ci, workerVars, callerVars, outVars>>

\* close(m.ch): panics when the channel is closed already
CloseChan(c) ==
    /\ Running
    /\ UNCHANGED extVars
    /\ cpc[c] = "closech"
    /\ IF chClosed
       THEN /\ panicked' = TRUE
            /\ cpc' = [cpc EXCEPT ![c] = "panic"]
            /\ UNCHANGED chClosed
       ELSE /\ chClosed' = TRUE
            /\ cpc' = [cpc EXCEPT ![c] = "wait"]
            /\ UNCHANGED panicked
    /\ UNCHANGED <<outputs, mu, b, ch, doneClosed, enq, prodVars,
                   ci, workerVars, callerVars, outVars>>

\* <-entry.done
CloseWait(c) ==
    /\ Running
    /\ UNCHANGED extVars
    /\ cpc[c] = "wait"
    /\ (0 - c) \in doneClosed
    /\ cpc' = [cpc EXCEPT ![c] = "lock"]
    /\ UNCHANGED <<outputs, mu, b, ch, chClosed, doneClosed, enq, prodVars,
                   ci, workerVars, callerVars, outVars, panicked>>

\* m.mu.Lock()
CloseLock(c) ==
    /\ Running
    /\ UNCHANGED extVars
    /\ cpc[c] = "lock"
    /\ mu = Free
    /\ mu' = ByCloser(c)
    /\ ci' = [ci EXCEPT ![c] = 1]
    /\ cpc' = [cpc EXCEPT ![c] = "closing"]
    /\ UNCHANGED <<outputs, b, ch, chClosed, doneClosed, enq, prodVars,
                   workerVars, callerVars, outVars, panicked>>

\* A buggy loop that stops at the first LogClose that returns an error.
CloseOutputShortCircuit(c) ==
    /\ Running
    /\ UNCHANGED extVars
    /\ cpc[c] = "closing"
    /\ ci[c] <= Len(outputs)
    /\ LET d == outputs[ci[c]] IN
          IF add[d] > 1
          THEN /\ add' = [add EXCEPT ![d] = @ - 1]
               /\ closeLog' = Append(closeLog, <<c, d, "nil">>)
               /\ ci' = [ci EXCEPT ![c] = @ + 1]
               /\ UNCHANGED released
          ELSE /\ released' = [released EXCEPT ![d] = @ + 1]
               /\ \E r \in CloseResults :
                     /\ closeLog' = Append(closeLog, <<c, d, r>>)
                     /\ ci' = [ci EXCEPT ![c] =
                                 IF r = "err" THEN Len(outputs) + 1 ELSE @ + 1]
               /\ UNCHANGED add
    /\ UNCHANGED <<outputs, mu, b, ch, chClosed, doneClosed, enq, prodVars,
                   cpc, workerVars, callerVars, onAdds, delivered, panicked>>

\* A buggy LogClose that tests o.add >= 1: the last close only decrements.
CloseOutputOffByOne(c) ==
    /\ Running
    /\ UNCHANGED extVars
    /\ cpc[c] = "closing"
    /\ ci[c] <= Len(outputs)
    /\ LET d == outputs[ci[c]] IN
          IF add[d] >= 1
          THEN /\ add' = [add EXCEPT ![d] = @ - 1]
               /\ closeLog' = Append(closeLog, <<c, d, "nil">>)
               /\ UNCHANGED released
          ELSE /\ released' = [released EXCEPT ![d] = @ + 1]
               /\ \E r \in CloseResults :
                     closeLog' = Append(closeLog, <<c, d, r>>)
               /\ UNCHANGED add
    /\ ci' = [ci EXCEPT ![c] = @ + 1]
    /\ UNCHANGED <<outputs, mu, b, ch, chClosed, doneClosed, enq, prodVars,
                   cpc, workerVars, callerVars, onAdds, delivered, panicked>>

\* one iteration of `for _, v := range m.outputs { v.LogClose() }` with
\* outputWrapper.LogClose / FileOutput.LogClose:
\*   if o.add > 1 { o.add--; return nil }; return o.CloseFunc(o.w, o.close)
CloseOutput(c) ==
    /\ Running
    /\ UNCHANGED extVars
    /\ cpc[c] = "closing"
    /\ ci[c] <= Len(outputs)
    /\ LET d == outputs[ci[c]] IN
          IF add[d] > 1
          THEN /\ add' = [add EXCEPT ![d] = @ - 1]
               /\ closeLog' = Append(closeLog, <<c, d, "nil">>)
               /\ UNCHANGED released
          ELSE /\ released' = [released EXCEPT ![d] = @ + 1]
               /\ \E r \in CloseResults :
                     closeLog' = Append(closeLog, <<c, d, r>>)
               /\ UNCHANGED add
    /\ ci' = [ci EXCEPT ![c] = @ + 1]
    /\ UNCHANGED <<outputs, mu, b, ch, chClosed, doneClosed, enq, prodVars,
                   cpc, workerVars, callerVars, onAdds, delivered, panicked>>

\* m.outputs = []Output{}; m.mu.Unlock(); return nil
CloseFinish(c) ==
    /\ Running
    /\ UNCHANGED extVars
    /\ cpc[c] = "closing"
    /\ ci[c] > Len(outputs)
    /\ outputs' = <<>>
    /\ mu' = Free
    /\ cpc' = [cpc EXCEPT ![c] = "ret_nil"]
    /\ ci' = [ci EXCEPT ![c] = 0]
    /\ UNCHANGED <<b, ch, chClosed, doneClosed, enq, prodVars,
                   workerVars, callerVars, outVars, panicked>>

\* ------------------------------------------------------- registry callers
\* manager.addOutput: if b { return }
AddLoad(d) ==
    /\ Running
    /\ UNCHANGED extVars
    /\ apc = "idle"
    /\ ncalls < MaxCalls
    /\ ncalls' = ncalls + 1
    /\ IF b THEN UNCHANGED <<apc, ad>>
            ELSE apc' = "add" /\ ad' = d
    /\ UNCHANGED <<outputs, mu, b, ch, chClosed, doneClosed, enq, prodVars,
                   closerVars, workerVars, outVars, panicked>>

\* m.mu.Lock(); m.outputs = append(m.outputs, o); o.OnAdd(); m.mu.Unlock()
AddAppend ==
    /\ Running
    /\ UNCHANGED extVars
    /\ apc = "add"
    /\ mu = Free
    /\ outputs' = Append(outputs, ad)
    /\ add' = [add EXCEPT ![ad] = @ + 1]
    /\ onAdds' = [onAdds EXCEPT ![ad] = @ + 1]
    /\ apc' = "idle"
    /\ ad' = 0
    /\ UNCHANGED <<mu, b, ch, chClosed, doneClosed, enq, prodVars, closerVars,
                   workerVars, ncalls, released, delivered, closeLog,
                   panicked>>

\* manager.removeOutput, whole under the mutex: the caller is left holding
\* the boolean it returns
RemoveOutput(d) ==
    /\ Running
    /\ UNCHANGED extVars
    /\ apc = "idle"
    /\ ncalls < MaxCalls
    /\ ncalls' = ncalls + 1
    /\ mu = Free
    /\ outputs' = SwapRemove(outputs, d)
    /\ apc' = IF \E i \in 1..Len(outputs) : outputs[i] = d
              THEN "ret_true" ELSE "ret_false"
    /\ ad' = d
    /\ UNCHANGED <<mu, b, ch, chClosed, doneClosed, enq, prodVars, closerVars,
                   workerVars, outVars, panicked>>

\* Logger.RemoveOutput returns to its caller
RemoveReturn ==
    /\ Running
    /\ UNCHANGED extVars
    /\ apc \in {"ret_true", "ret_false"}
    /\ apc' = "idle"
    /\ ad' = 0
    /\ UNCHANGED <<outputs, mu, b, ch, chClosed, doneClosed, enq, prodVars,
                   closerVars, workerVars, ncalls, outVars, panicked>>

\* A buggy Lock that returns without taking the mutex.
UserLockNoMutex ==
    /\ Running
    /\ UNCHANGED extVars
    /\ apc = "idle"
    /\ ncalls < MaxCalls
    /\ ncalls' = ncalls + 1
    /\ apc' = "locked"
    /\ UNCHANGED <<outputs, mu, b, ch, chClosed, doneClosed, enq, prodVars,
                   closerVars, workerVars, ad, outVars, panicked>>

\* manager.Lock
UserLock ==
    /\ Running
    /\ UNCHANGED extVars
    /\ apc = "idle"
    /\ ncalls < MaxCalls
    /\ ncalls' = ncalls + 1
    /\ mu = Free
    /\ mu' = ByCaller
    /\ apc' = "locked"
    /\ UNCHANGED <<outputs, b, ch, chClosed, doneClosed, enq, prodVars,
                   closerVars, workerVars, ad, outVars, panicked>>

\* manager.Unlock
UserUnlock ==
    /\ Running
    /\ UNCHANGED extVars
    /\ apc = "locked"
    /\ mu' = Free
    /\ apc' = "idle"
    /\ UNCHANGED <<outputs, b, ch, chClosed, doneClosed, enq, prodVars,
                   closerVars, workerVars, ad, ncalls, outVars, panicked>>

\* ------------------------------------------- a goroutine logging in sequence
\* The record built by the k-th Log call of the goroutine.
SeqRec(k) == NumProducers + k

\* Logger.Log of an Async logger, manager.log: if b { return ErrManagerClosed }
SeqLoad ==
    /\ Running
    /\ qpc = "idle"
    /\ qn < NumSeq
    /\ qpc' = IF b THEN "ret_closed" ELSE "send"
    /\ UNCHANGED <<outputs, mu, b, ch, chClosed, doneClosed, enq, prodVars,
                   closerVars, workerVars, callerVars, outVars, panicked, qn,
                   shareVars, cacheVars,
                   fileVars>>

\* m.ch <- e; return nil (block is false)
SeqSend ==
    /\ Running
    /\ qpc = "send"
    /\ IF chClosed
       THEN /\ panicked' = TRUE
            /\ qpc' = "panic"
            /\ UNCHANGED <<ch, enq, qn>>
       ELSE /\ Len(ch) < ChanCap
            /\ ch' = Append(ch, LogItem(SeqRec(qn + 1), FALSE))
            /\ enq' = Append(enq, SeqRec(qn + 1))
            /\ qn' = qn + 1
            /\ qpc' = "idle"
            /\ UNCHANGED panicked
    /\ UNCHANGED <<outputs, mu, b, chClosed, doneClosed, prodVars,
                   closerVars, workerVars, callerVars, outVars, shareVars,
                   cacheVars, fileVars>>

\* ------------------------------------- one Output added to several managers
\* One goroutine adds the Output o to the managers, one after the other.
\* Each manager m has its own mutex, worker and callers: Log calls that its
\* worker delivers to o, then Close.  The steps of one manager follow each
\* other; those of different managers interleave freely, because o.add and
\* o.Log are guarded by the mutex of the calling manager only.

\* addOutput under m.mu: o.OnAdd() is o.add++, here its load
ShOnAddLoad(m) ==
    /\ mpc[m] = "new"
    /\ \A k \in Managers : k < m => mpc[k] \notin {"new", "onadd"}
    /\ mtmp' = [mtmp EXCEPT ![m] = sadd]
    /\ mpc' = [mpc EXCEPT ![m] = "onadd"]
    /\ UNCHANGED <<mgrVars, seqVars, fileVars,
                   cacheVars, sadd, sreleased, mlogs>>

\* the store of o.add++
ShOnAddStore(m) ==
    /\ mpc[m] = "onadd"
    /\ sadd' = mtmp[m] + 1
    /\ mpc' = [mpc EXCEPT ![m] = "open"]
    /\ UNCHANGED <<mgrVars, seqVars, fileVars,
                   cacheVars, sreleased, mtmp, mlogs>>

\* the worker of m, under m.mu, enters output.Log(e.entry)
ShLogBegin(m) ==
    /\ mpc[m] = "open"
    /\ mlogs[m] < MaxShareLogs
    /\ mlogs' = [mlogs EXCEPT ![m] = @ + 1]
    /\ mpc' = [mpc EXCEPT ![m] = "inlog"]
    /\ UNCHANGED <<mgrVars, seqVars, fileVars,
                   cacheVars, sadd, sreleased, mtmp>>

\* output.Log returns
ShLogEnd(m) ==
    /\ mpc[m] = "inlog"
    /\ mpc' = [mpc EXCEPT ![m] = "open"]
    /\ UNCHANGED <<mgrVars, seqVars, fileVars,
                   cacheVars, sadd, sreleased, mtmp, mlogs>>

\* Close of m, after its drain, under m.mu: LogClose tests o.add > 1.
\* The managers are closed once the Output has been added to all of them.
ShCloseTest(m) ==
    /\ mpc[m] = "open"
    /\ \A k \in Managers : mpc[k] \notin {"new", "onadd"}
    /\ mtmp' = [mtmp EXCEPT ![m] = sadd]
    /\ mpc' = [mpc EXCEPT ![m] = IF sadd > 1 THEN "dec" ELSE "release"]
    /\ UNCHANGED <<mgrVars, seqVars, fileVars,
                   cacheVars, sadd, sreleased, mlogs>>

\* o.add--; return nil.  The decrement is unsynchronised: it stores one less
\* than the value the test loaded or than the value it finds now.
ShCloseDec(m) ==
    /\ mpc[m] = "dec"
    /\ \E v \in {mtmp[m], sadd} : sadd' = v - 1
    /\ mpc' = [mpc EXCEPT ![m] = "closed"]
    /\ UNCHANGED <<mgrVars, seqVars, fileVars,
                   cacheVars, sreleased, mtmp, mlogs>>

\* return o.CloseFunc(o.w, o.close)
ShRelease(m) ==
    /\ mpc[m] = "release"
    /\ sreleased' = sreleased + 1
    /\ mpc' = [mpc EXCEPT ![m] = "closed"]
    /\ UNCHANGED <<mgrVars, seqVars, fileVars, cacheVars, sadd, mtmp, mlogs>>

\* ------------------------------------- LogEntry cache, buffer pool, renderers
\* A flags value is the set of the names of its bits (F_Level is "Level").
F_NotSave == {"NotSave"}

\* The flags and output types the outputs of the rendering pass are given.
FlagChoices == {{"Level"}, {"Level", "NewLine"}, {"NewLine", "NotSave"}}
Kinds == {T_Text, T_JSON}

\* func (l LogLevel) Permits(level LogLevel) bool { return l <= level }
Permits(l, level) == l <= level

\* func (l LogLevel) String() string
LevelString(l) ==
    CASE l = 0 -> "DEGUB"
      [] l = 1 -> "INFO"
      [] l = 2 -> "WARN"
      [] l = 3 -> "ERROR"
      [] l = 4 -> "FATAL"
      [] OTHER -> "UNKNOWN"

\* The slices, the pool and the entry's cache as one value that the
\* functions below take and return.
Store == [heap |-> heap, pool |-> pool, log |-> bufLog,
          compiled |-> compiled, adds |-> addLog]

SetStore(st) ==
    /\ heap' = st.heap
    /\ pool' = st.pool
    /\ bufLog' = st.log
    /\ compiled' = st.compiled
    /\ addLog' = st.adds

\* pool.Put(b)
putBuf(st, x) ==
    [st EXCEPT !.pool = @ \cup {x}, !.log = Append(@, <<"put", x>>)]

\* pool.Get() hands out a pointer of the pool or the one New allocates
PoolGets(st) == st.pool \cup {Len(st.heap) + 1}

\* b, _ := pool.Get().(*[]byte); *b = (*b)[:0]
getBuf(st, x) ==
    [st EXCEPT !.pool = @ \ {x},
               !.heap = IF x > Len(@) THEN Append(@, <<>>)
                                      ELSE [@ EXCEPT ![x] = <<>>],
               !.log = Append(@, <<"get", x>>)]

\* *buf = append(*buf, ...)
appendBuf(st, x, bytes) ==
    [st EXCEPT !.heap[x] = @ \o bytes, !.log = Append(@, <<"write", x>>)]

\* w.Write(*buf)
readBuf(st, x) == [st EXCEPT !.log = Append(@, <<"read", x>>)]

\* The index of the first entry of Compiled with this flag and output type,
\* 0 when there is none.
FindCompiled(c, f, k) ==
    IF \E i \in 1..Len(c) : c[i].flag = f /\ c[i].kind = k
    THEN CHOOSE i \in 1..Len(c) :
            /\ c[i].flag = f /\ c[i].kind = k
            /\ \A j \in 1..(i - 1) : ~(c[j].flag = f /\ c[j].kind = k)
    ELSE 0

\* A buggy AddCompiled in which the last buffer added under a key wins.
AddCompiledReplace(st, f, k, x) ==
    LET called == [st EXCEPT !.adds =
                      Append(@, [flag |-> f, kind |-> k, buf |-> x])]
        i == FindCompiled(st.compiled, f, k)
    IN  IF "NotSave" \in f
        THEN putBuf(called, x)
        ELSE IF i # 0
             THEN putBuf([called EXCEPT !.compiled[i].buf = x],
                         st.compiled[i].buf)
             ELSE [called EXCEPT !.compiled =
                      Append(@, [flag |-> f, kind |-> k, buf |-> x])]

\* LogEntry.AddCompiled, whole under entry.Lock()
AddCompiled(st, f, k, x) ==
    LET called == [st EXCEPT !.adds =
                      Append(@, [flag |-> f, kind |-> k, buf |-> x])]
    IN  IF "NotSave" \in f
        THEN putBuf(called, x)
        ELSE IF FindCompiled(st.compiled, f, k) # 0
             THEN putBuf(called, x)
             ELSE [called EXCEPT !.compiled =
                      Append(@, [flag |-> f, kind |-> k, buf |-> x])]

\* LogEntry.GetCompiled, whole under entry.Lock()
GetCompiled(c, f, k) ==
    IF "NotSave" \in f
    THEN [ok |-> FALSE, buf |-> 0]
    ELSE IF FindCompiled(c, f, k) # 0
         THEN [ok |-> TRUE, buf |-> c[FindCompiled(c, f, k)].buf]
         ELSE [ok |-> FALSE, buf |-> 0]

\* json.Marshal of a string escapes the newline.
JSONEscape(msg) == [i \in 1..Len(msg) |-> IF msg[i] = "\n" THEN "\\n" ELSE msg[i]]

\* `[` prefix `] ` for each prefix
RECURSIVE PrefixBytes(_)
PrefixBytes(ps) ==
    IF ps = <<>> THEN <<>>
    ELSE <<"[", Head(ps), "] ">> \o PrefixBytes(Tail(ps))

\* What TextLogFunc appends to *buf.
TextBytes(e, f) ==
    (IF f \cap {"Time", "Micro"} # {}
     THEN <<"dd/mm/yyyy", " ", "hh:mm:ss">>
          \o (IF "Micro" \in f THEN <<".", "uuuuuu">> ELSE <<>>) \o <<" ">>
     ELSE <<>>)
    \o (IF e.prefixes # <<>> /\ f \cap {"Prefix", "LastPrefix"} # {}
        THEN IF "LastPrefix" \in f
             THEN <<"[", Last(e.prefixes), "] ">>
             ELSE PrefixBytes(e.prefixes)
        ELSE <<>>)
    \o (IF "Level" \in f THEN <<"[", LevelString(e.level), "] ">> ELSE <<>>)
    \o e.msg
    \o (IF "NewLine" \in f /\ Last(e.msg) # "\n" THEN <<"\n">> ELSE <<>>)

\* entry.Msg[len(entry.Msg)-1] with an empty Msg: index out of range
TextPanics(e, f) == "NewLine" \in f /\ e.msg = <<>>

\* A buggy JSONLogFunc that tests F_Fields before F_Fields_A.
JSONBytesTopFirst(e, f) ==
    <<"{">>
    \o (IF "Time" \in f THEN <<"time:", "<time>">> ELSE <<>>)
    \o (IF e.prefixes # <<>> /\ f \cap {"Prefix", "LastPrefix"} # {}
        THEN IF "LastPrefix" \in f
             THEN <<"prefix:", Last(e.prefixes)>>
             ELSE <<"prefix:", "[">> \o e.prefixes \o <<"]">>
        ELSE <<>>)
    \o (IF "Level" \in f THEN <<"level:", LevelString(e.level)>> ELSE <<>>)
    \o (IF e.fields # <<>> /\ f \cap {"Fields", "Fields_A", "Fields_B"} # {}
        THEN IF "Fields" \in f
             THEN e.fields
             ELSE IF "Fields_A" \in f
                  THEN <<"fields:", "{">> \o e.fields \o <<"}">>
                  ELSE <<"fields:", "[">> \o e.fields \o <<"]">>
        ELSE <<>>)
    \o <<"msg:">> \o JSONEscape(e.msg)
    \o <<"}">>

\* data, _ := json.Marshal(m) in JSONLogFunc
JSONBytes(e, f) ==
    <<"{">>
    \o (IF "Time" \in f THEN <<"time:", "<time>">> ELSE <<>>)
    \o (IF e.prefixes # <<>> /\ f \cap {"Prefix", "LastPrefix"} # {}
        THEN IF "LastPrefix" \in f
             THEN <<"prefix:", Last(e.prefixes)>>
             ELSE <<"prefix:", "[">> \o e.prefixes \o <<"]">>
        ELSE <<>>)
    \o (IF "Level" \in f THEN <<"level:", LevelString(e.level)>> ELSE <<>>)
    \o (IF e.fields # <<>> /\ f \cap {"Fields", "Fields_A", "Fields_B"} # {}
        THEN IF "Fields_A" \in f
             THEN <<"fields:", "{">> \o e.fields \o <<"}">>
             ELSE IF "Fields" \in f
                  THEN e.fields
                  ELSE <<"fields:", "[">> \o e.fields \o <<"]">>
        ELSE <<>>)
    \o <<"msg:">> \o JSONEscape(e.msg)
    \o <<"}">>

\* TextLogFunc(buf, entry, flags, w): the store it leaves and what w receives
TextLogFunc(st, x, e, f) ==
    LET s1 == appendBuf(st, x, TextBytes(e, f))
        s2 == AddCompiled(s1, f, T_Text, x)
        s3 == readBuf(s2, x)
    IN  [st |-> s3, bytes |-> s3.heap[x]]

\* JSONLogFunc(buf, entry, flags, w): data is a new slice, Compiled keeps the
\* pointer &data, so the newline appended afterwards is seen through it
JSONLogFunc(st, x, e, f) ==
    LET data == Len(st.heap) + 1
        s1 == [st EXCEPT !.heap = Append(@, JSONBytes(e, f))]
        s2 == AddCompiled(s1, f, T_JSON, data)
        s3 == AddCompiled(s2, F_NotSave, T_JSON, x)
        s4 == IF "NewLine" \in f THEN appendBuf(s3, data, <<"\n">>) ELSE s3
        s5 == readBuf(s4, data)
    IN  [st |-> s5, bytes |-> s5.heap[data]]

\* An output of the pass: its flags, the output type it was created for,
\* whether NewOutputWrapper built it, its log level.
RenderConfigs == [flags : FlagChoices, kind : Kinds, wrapped : BOOLEAN,
                  level : {L_Info}]
RenderRegistries ==
    UNION {[1..n -> RenderConfigs] : n \in 1..MaxRenderOutputs}
RenderEntries == [level : {L_Debug, L_Info},
                  msg : {<<>>, <<"m">>, <<"m", "\n">>},
                  prefixes : {<<>>}, fields : {<<>>}]

\* o.outputType: NewJSONOutput, NewTextOutput and NewFileOutput set it,
\* NewOutputWrapper leaves it at the zero value
OutputTypeOf(o) == IF o.wrapped THEN T_Text ELSE o.kind

\* outputWrapper.Log / FileOutput.Log of the next output of the pass
OutputLog ==
    /\ Running
    /\ rpc = "pass"
    /\ rpos <= Len(routs)
    /\ LET o == routs[rpos]
           g == GetCompiled(compiled, o.flags, OutputTypeOf(o))
       IN  IF ~Permits(o.level, rentry.level)
           THEN /\ wrote' = Append(wrote, [written |-> FALSE, fresh |-> FALSE,
                                           bytes |-> <<>>])
                /\ UNCHANGED <<bufVars, panicked>>
           ELSE IF g.ok
           THEN /\ SetStore(readBuf(Store, g.buf))
                /\ wrote' = Append(wrote, [written |-> TRUE, fresh |-> FALSE,
                                           bytes |-> heap[g.buf]])
                /\ UNCHANGED panicked
           ELSE \E x \in PoolGets(Store) :
                  LET s1 == getBuf(Store, x) IN
                  IF o.kind = T_Text /\ TextPanics(rentry, o.flags)
                  THEN /\ SetStore(appendBuf(s1, x, rentry.msg))
                       /\ panicked' = TRUE
                       /\ UNCHANGED wrote
                  ELSE LET r == IF o.kind = T_Text
                                THEN TextLogFunc(s1, x, rentry, o.flags)
                                ELSE JSONLogFunc(s1, x, rentry, o.flags)
                       IN  /\ SetStore(r.st)
                           /\ wrote' = Append(wrote,
                                 [written |-> TRUE, fresh |-> TRUE,
                                  bytes |-> r.bytes])
                           /\ UNCHANGED panicked
    /\ rpos' = rpos + 1
    /\ UNCHANGED <<mgrState, seqVars, fileVars,
                   shareVars, got, rentry, routs, rpc>>

\* for _, entry := range e.entry.Compiled { putBuf(entry.Buf) }
RECURSIVE PutAll(_, _)
PutAll(st, c) ==
    IF c = <<>> THEN st ELSE PutAll(putBuf(st, Head(c).buf), Tail(c))

\* the worker after the last output of the pass
PassRelease ==
    /\ Running
    /\ rpc = "pass"
    /\ rpos > Len(routs)
    /\ SetStore(PutAll(Store, compiled))
    /\ rpc' = "done"
    /\ UNCHANGED <<mgrVars, seqVars, fileVars,
                   shareVars, got, rentry, routs, rpos,
                   wrote>>

\* A caller of the entry's API: buf := entry.GetBuf(); AddCompiled(f, k, buf)
CacheAdd(f, k) ==
    /\ rpc = "idle"
    /\ Len(addLog) < MaxCacheAdds
    /\ \E x \in PoolGets(Store) : SetStore(AddCompiled(getBuf(Store, x), f, k, x))
    /\ UNCHANGED <<mgrVars, seqVars, fileVars, shareVars, got, passVars>>

\* A caller of the entry's API: entry.GetCompiled(f, k)
CacheGet(f, k) ==
    /\ rpc = "idle"
    /\ got' = [flag |-> f, kind |-> k,
               ok |-> GetCompiled(compiled, f, k).ok,
               buf |-> GetCompiled(compiled, f, k).buf]
    /\ UNCHANGED <<mgrVars, seqVars, fileVars, shareVars, bufVars, passVars>>

\* The log levels.
Levels == L_Debug..L_Fatal

\* The outputs of the pass whose log level callers set: NewTextOutput and
\* NewJSONOutput with F_Level|F_NewLine, which start at L_Info.
LevelConfigs == [flags : {{"Level", "NewLine"}}, kind : Kinds,
                 wrapped : {FALSE}, level : {L_Info}]
LevelRegistries ==
    UNION {[1..n -> LevelConfigs] : n \in 1..MaxLevelOutputs}

\* The entries Logger.Log builds for them: every level, with the message
\* of Log(level, "") and of Log(level, "m").
LevelEntries == [level : Levels, msg : {<<>>, <<"m">>},
                 prefixes : {<<>>}, fields : {<<>>}]

\* func (o *outputWrapper) SetLogLevel(level LogLevel) { o.logLevel = level }
\* called on the i-th output between two delivery calls of the pass.
SetLogLevel(i, l) ==
    /\ Running
    /\ rpc = "pass"
    /\ i \in 1..Len(routs)
    /\ l # routs[i].level
    /\ routs' = [routs EXCEPT ![i].level = l]
    /\ UNCHANGED <<mgrVars, seqVars, fileVars,
                   shareVars, bufVars, got, rentry, rpc,
                   rpos, wrote>>

\* --------------------------------------------------------------- FileOutput
\* Unwrap of the error values of a FileOutput: os.File.Write on a closed
\* file returns a *PathError that wraps os.ErrClosed; ErrOutputClosed is the
\* value of fmt.Errorf("output closed") and wraps nothing.
Unwrap(e) == IF e = "PathError" THEN "os.ErrClosed" ELSE "none"

\* errors.Is(e, target): e, or an error of its Unwrap chain, is target
RECURSIVE ErrorsIs(_, _)
ErrorsIs(e, target) ==
    IF e \in {"nil", "none"} THEN FALSE
    ELSE IF e = target THEN TRUE
    ELSE ErrorsIs(Unwrap(e), target)

\* _, e = o.f.Write(*buf), also inside o.LogFunc
FileWrite(closed) == IF closed THEN "PathError" ELSE "nil"

\* func (o *FileOutput) Log(entry *LogEntry) error
FileLog(logLevel, level, closed) ==
    IF Permits(logLevel, level)
    THEN LET e == FileWrite(closed)
         IN  IF ErrorsIs(e, "ErrOutputClosed") THEN "ErrOutputClosed" ELSE e
    ELSE "nil"

\* The outputs are NewFileOutput(path, false, flags, L_Info, T_Text, true).
FileLevel == L_Info

\* The goroutine that logs in sequence calls Info and Debug in turn.
RecLevel(r) == IF (r - NumProducers) % 2 = 1 THEN L_Info ELSE L_Debug

\* The file of output d is closed, and not by d's LogClose.
FileCloseOutside(d) ==
    /\ Running
    /\ ~fclosed[d]
    /\ fclosed' = [fclosed EXCEPT ![d] = TRUE]
    /\ UNCHANGED <<mgrVars, seqVars, shareVars, cacheVars, ffails, lcalls>>

\* one iteration of the worker's loop over outputs that are FileOutputs:
\*   if output.Log(e.entry) == ErrOutputClosed { rm = append(rm, i) }
FileWorkerDeliver ==
    /\ Running
    /\ wpc = "deliver"
    /\ wi <= Len(outputs)
    /\ LET d == outputs[wi]
           r == FileLog(FileLevel, RecLevel(we.entry), fclosed[d])
       IN  /\ res' = Append(res, r)
           /\ rm' = IF r = "ErrOutputClosed" THEN Append(rm, wi - 1) ELSE rm
           /\ ffails' = IF Permits(FileLevel, RecLevel(we.entry)) /\ fclosed[d]
                        THEN ffails \cup {d} ELSE ffails
           /\ delivered' = [delivered EXCEPT ![d] = Append(@, we.entry)]
    /\ wi' = wi + 1
    /\ UNCHANGED <<outputs, mu, b, ch, chClosed, doneClosed, enq, prodVars,
                   closerVars, wpc, we, callerVars, add, onAdds, released,
                   closeLog, panicked, seqVars, shareVars, cacheVars,
                   fclosed, lcalls>>

\* The field-embedding bits, and the flags the JSON outputs are given:
\* every combination of them, with or without F_NewLine.
FieldBits == {"Fields", "Fields_A", "Fields_B"}
FieldFlags == {fs \cup nl : fs \in SUBSET FieldBits,
                            nl \in {{}, {"NewLine"}}}

\* NewJSONOutput(w, flags, false)
FieldConfigs == [flags : FieldFlags, kind : {T_JSON}, wrapped : {FALSE},
                 level : {L_Info}]
FieldRegistries ==
    UNION {[1..n -> FieldConfigs] : n \in 1..MaxFieldOutputs}

\* The entries of loggers with no, one and two fields; a field is written
\* as the token `"key":value`.
FieldEntries == [level : {L_Info}, msg : {<<"m">>}, prefixes : {<<>>},
                 fields : {<<>>, <<"k1:v1">>, <<"k1:v1", "k2:v2">>}]

\* ------------------------------------- OnAdd and LogClose calls on one Output
\* func (o *outputWrapper) OnAdd() { o.add++ }, called by one goroutine
LifeOnAdd ==
    /\ Len(lcalls) < MaxLifeCalls
    /\ sadd' = sadd + 1
    /\ lcalls' = Append(lcalls, "OnAdd")
    /\ UNCHANGED <<mgrVars, seqVars, cacheVars, fclosed, ffails, sreleased,
                   mpc, mtmp, mlogs>>

\* outputWrapper.LogClose / FileOutput.LogClose, called by that goroutine:
\*   if o.add > 1 { o.add--; return nil }
\*   return o.CloseFunc(o.w, o.close)      (return o.f.Close())
LifeLogClose ==
    /\ Len(lcalls) < MaxLifeCalls
    /\ IF sadd > 1
       THEN sadd' = sadd - 1 /\ UNCHANGED sreleased
       ELSE sreleased' = sreleased + 1 /\ UNCHANGED sadd
    /\ lcalls' = Append(lcalls, "LogClose")
    /\ UNCHANGED <<mgrVars, seqVars, cacheVars, fclosed, ffails, mpc, mtmp,
                   mlogs>>

\* ---------------------------------------------------------- specifications
LogNext(p) ==
    \/ LogLoad(p)
    \/ LogSend(p)
    \/ LogWait(p)

WorkerNext ==
    \/ WorkerRecv
    \/ WorkerExit
    \/ WorkerLock
    \/ WorkerDeliver
    \/ WorkerEvict
    \/ WorkerSignal

CloseNext(c) ==
    \/ CloseLoad(c)
    \/ CloseStore(c)
    \/ CloseSend(c)
    \/ CloseChan(c)
    \/ CloseWait(c)
    \/ CloseLock(c)
    \/ CloseOutput(c)
    \/ CloseFinish(c)

CallerNext ==
    \/ \E d \in Dest : AddLoad(d)
    \/ AddAppend
    \/ \E d \in Dest : RemoveOutput(d)
    \/ RemoveReturn
    \/ UserLock
    \/ UserUnlock

\* The Log calls racing with each other and with one Close call, on a
\* manager whose outputs were added before.
Next ==
    \/ \E p \in Producers : LogNext(p)
    \/ WorkerNext
    \/ CloseNext(1)

Spec == InitAdded /\ [][Next]_vars

\* The Log calls racing with several Close calls.
NextRace ==
    \/ \E p \in Producers : LogNext(p)
    \/ WorkerNext
    \/ \E c \in Closers : CloseNext(c)

SpecRace == InitAdded /\ [][NextRace]_vars

\* Registry calls (AddOutput, RemoveOutput, Lock, Unlock) on a new manager,
\* racing with one Log call and one Close call.
NextReg ==
    \/ LogNext(1)
    \/ WorkerNext
    \/ CloseNext(1)
    \/ CallerNext

SpecReg == Init /\ [][NextReg]_vars

\* One goroutine logging in sequence through an Async logger while another
\* calls Lock and Unlock, on a manager with one output.
\* Nobody calls Close, so the worker's range loop does not end.
NextLock ==
    \/ SeqLoad
    \/ SeqSend
    \/ WorkerRecv
    \/ WorkerLock
    \/ WorkerDeliver
    \/ WorkerEvict
    \/ WorkerSignal
    \/ UserLock
    \/ UserUnlock

\* The logger of that scenario: one output was added to it.
InitLock == InitWith(<<1>>)

SpecLock == InitLock /\ [][NextLock]_vars

\* One Output added to every manager of Managers, each of which delivers a
\* record to it and is closed.
ShareNext(m) ==
    \/ ShOnAddLoad(m)
    \/ ShOnAddStore(m)
    \/ ShLogBegin(m)
    \/ ShLogEnd(m)
    \/ ShCloseTest(m)
    \/ ShCloseDec(m)
    \/ ShRelease(m)

NextShare == \E m \in Managers : ShareNext(m)

SpecShare == Init /\ [][NextShare]_vars

\* The delivery pass of one LogEntry over the library's outputs: rendering,
\* the entry's cache and the buffer pool.
InitRender ==
    /\ MgrInit(<<>>)
    /\ SeqInit
    /\ ShareInit
    /\ FileInit
    /\ \E e \in RenderEntries : \E outs \in RenderRegistries :
          CacheInitWith(e, outs)

NextRender ==
    \/ OutputLog
    \/ PassRelease

SpecRender == InitRender /\ [][NextRender]_vars

\* Callers of AddCompiled and GetCompiled on one LogEntry.
NextCache ==
    \/ \E f \in FlagChoices : \E k \in Kinds : CacheAdd(f, k)
    \/ \E f \in FlagChoices : \E k \in Kinds : CacheGet(f, k)

SpecCache == Init /\ [][NextCache]_vars

\* The delivery pass of one LogEntry over outputs whose log level is set
\* by SetLogLevel calls between the delivery calls.
InitLevel ==
    /\ MgrInit(<<>>)
    /\ SeqInit
    /\ ShareInit
    /\ FileInit
    /\ \E e \in LevelEntries : \E outs \in LevelRegistries :
          CacheInitWith(e, outs)

NextLevel ==
    \/ OutputLog
    \/ PassRelease
    \/ \E i \in 1..MaxLevelOutputs : \E l \in Levels : SetLogLevel(i, l)

SpecLevel == InitLevel /\ [][NextLevel]_vars

\* One goroutine logging in sequence to FileOutputs whose files are closed
\* from outside at any time.
InitFile == \E outs \in Registries \ {<<>>} : InitWith(outs)

NextFile ==
    \/ SeqLoad
    \/ SeqSend
    \/ WorkerRecv
    \/ WorkerLock
    \/ FileWorkerDeliver
    \/ WorkerEvict
    \/ WorkerSignal
    \/ \E d \in Dest : FileCloseOutside(d)

SpecFile == InitFile /\ [][NextFile]_vars

\* AddOutput and RemoveOutput calls racing with one Log call, on a manager
\* that may hold an output already. Nobody calls Close.
NextOrder ==
    \/ LogNext(1)
    \/ WorkerRecv
    \/ WorkerLock
    \/ WorkerDeliver
    \/ WorkerEvict
    \/ WorkerSignal
    \/ \E d \in Dest : AddLoad(d)
    \/ AddAppend
    \/ \E d \in Dest : RemoveOutput(d)
    \/ RemoveReturn

SpecOrder == InitAdded /\ [][NextOrder]_vars

\* The scheduler lets every goroutine that can take a step take one: the
\* Log calls, the worker and the Close call of Spec under weak fairness.
Fairness ==
    /\ \A p \in Producers : WF_vars(LogNext(p))
    /\ WF_vars(WorkerNext)
    /\ WF_vars(CloseNext(1))

SpecLive == InitAdded /\ [][Next]_vars /\ Fairness

\* The delivery pass of one LogEntry over JSON outputs with field flags.
InitFields ==
    /\ MgrInit(<<>>)
    /\ SeqInit
    /\ ShareInit
    /\ FileInit
    /\ \E e \in FieldEntries : \E outs \in FieldRegistries :
          CacheInitWith(e, outs)

SpecFields == InitFields /\ [][NextRender]_vars

\* One goroutine calling OnAdd and LogClose on a new Output in any order.
NextLife ==
    \/ LifeOnAdd
    \/ LifeLogClose

SpecLife == Init /\ [][NextLife]_vars

\* ------------------------------------------------------------------ claims
\* Record x was sent on m.ch before record y.
EnqBefore(x, y) ==
    /\ x \in Range(enq)
    /\ y \in Range(enq)
    /\ Pos(enq, x) < Pos(enq, y)

\* The outputs whose LogClose the Close call c has invoked, in call order.
RECURSIVE ClosedBy(_, _)
ClosedBy(log, c) ==
    IF log = <<>> THEN <<>>
    ELSE IF Head(log)[1] = c
         THEN <<Head(log)[2]>> \o ClosedBy(Tail(log), c)
         ELSE ClosedBy(Tail(log), c)

\* Some Close call has returned nil.
CloseReturned == \E c \in Closers : cpc[c] = "ret_nil"

\* Registrations of output d whose delivery call in the pass that ends did not
\* return ErrOutputClosed.
Survivors(d) ==
    Cardinality({i \in 1..Len(outputs) :
                    outputs[i] = d /\ res[i] # "ErrOutputClosed"})

\* The worker step that ends a delivery pass (compaction and Unlock).
PassEnds == wpc = "deliver" /\ wpc' = "signal"

\* C1: every output is called with records in the order of their enqueue:
\* what it has received are records that were sent on the channel, and never
\* a record after one that was enqueued later than it.
C1_FifoDelivery ==
    \A d \in Dest :
        /\ Range(delivered[d]) \subseteq Range(enq)
        /\ \A i, j \in 1..Len(delivered[d]) :
              i < j => ~EnqBefore(delivered[d][j], delivered[d][i])

\* Two log calls were enqueued against the order of their start and an output
\* has received both records.
C1_Witness ==
    /\ enq = <<2, 1>>
    /\ \E d \in Dest : delivered[d] = <<2, 1>>

\* C2: a blocking log call that has returned nil finds the delivery pass of
\* its record and of every record enqueued before it finished; a non-blocking
\* log call has returned nil as soon as its item is in the channel and never
\* waits for a done channel.
C2_BlockingWaitsForPass ==
    \A p \in Producers :
        /\ (pblock[p] /\ ppc[p] = "ret_ok") =>
              /\ PassDone(p)
              /\ \A q \in Producers : EnqBefore(q, p) => PassDone(q)
        /\ (~pblock[p] /\ p \in Range(enq)) => ppc[p] = "ret_ok"
        /\ ppc[p] = "wait" => pblock[p]

\* A blocking call has returned after a non-blocking call that was enqueued
\* before it, and an output has received both records.
C2_Witness ==
    \E p, q \in Producers :
        /\ pblock[p] /\ ppc[p] = "ret_ok"
        /\ ~pblock[q] /\ EnqBefore(q, p)
        /\ \E d \in Dest : delivered[d] = <<q, p>>

\* C3: once Close has invoked the LogClose of an output, every record whose
\* log call returned nil has had its delivery pass.
C3_AcceptedDeliveredBeforeClose ==
    closeLog # <<>> =>
        \A p \in Producers : ppc[p] = "ret_ok" => PassDone(p)

\* C4: once m.b is true no record enters the channel, and no log call panics
\* on the closed channel.
C4_NoSendAfterClosed ==
    [][/\ b => enq' = enq
       /\ \A p \in Producers : ppc'[p] # "panic"]_vars

C6_OneCloseShutsDown ==
    Cardinality({c \in Closers :
                    cpc[c] \in {"closech", "wait", "lock", "closing",
                                "ret_nil", "panic"}}) <= 1

\* C7: the Close call that returns nil has invoked LogClose once for each
\* registration of the registry, in registry order, whatever the calls
\* returned, and leaves the registry empty.
C7_CloseEveryRegistration ==
    [][\A c \in Closers :
          (cpc[c] = "closing" /\ cpc'[c] = "ret_nil") =>
              /\ ClosedBy(closeLog, c) = outputs
              /\ outputs' = <<>>]_vars

\* A Close call has returned after the first LogClose failed and the second
\* output was closed all the same.
C7_Witness ==
    \E c \in Closers :
        /\ cpc[c] = "ret_nil"
        /\ Len(closeLog) = 2
        /\ closeLog[1][3] = "err"
        /\ closeLog[1][2] # closeLog[2][2]
        /\ outputs = <<>>

\* C8: a Close call returns nil only when no LogClose it invoked returned an
\* error.
C8_CloseReturnsAggregate ==
    \A c \in Closers :
        cpc[c] = "ret_nil" =>
            \A i \in 1..Len(closeLog) :
                closeLog[i][1] = c => closeLog[i][3] # "err"

\* C9: after a delivery pass the registry holds exactly the registrations of
\* its start whose delivery call did not return ErrOutputClosed.
C9_EvictExactlyClosed ==
    [][PassEnds => \A d \in Dest : Count(outputs', d) = Survivors(d)]_vars

\* C10: an output whose delivery call returned an error other than
\* ErrOutputClosed, and that returned ErrOutputClosed for none of its
\* registrations, is still registered after the pass.
C10_IoErrorStaysRegistered ==
    [][PassEnds =>
          \A d \in Dest :
              (/\ \E i \in 1..Len(outputs) : outputs[i] = d /\ res[i] = "ioerr"
               /\ \A i \in 1..Len(outputs) :
                     outputs[i] = d => res[i] # "ErrOutputClosed")
              => d \in Range(outputs')]_vars

\* LogClose invocations made on output d, in a log of LogClose calls.
NClose(log, d) == Cardinality({i \in 1..Len(log) : log[i][2] = d})

\* C11: for an output on which OnAdd was called k >= 1 times, each of the
\* first k-1 LogClose invocations leaves the resource unreleased and the k-th
\* releases it; the Close call of a manager that holds all k registrations
\* has released it once when it returns.
C11_ReleaseOnLastClose ==
    [][\A d \in Dest :
          /\ (/\ NClose(closeLog', d) = NClose(closeLog, d) + 1
              /\ onAdds[d] >= 1
              /\ NClose(closeLog, d) < onAdds[d])
             => /\ released[d] = 0
                /\ released'[d] =
                      IF NClose(closeLog', d) = onAdds[d] THEN 1 ELSE 0
          /\ (/\ \E c \in Closers : cpc[c] = "closing" /\ cpc'[c] = "ret_nil"
              /\ onAdds[d] >= 1
              /\ Count(outputs, d) = onAdds[d])
             => released'[d] = 1]_vars

\* An output added twice has been closed twice by one Close call and was
\* released by the second LogClose only.
C11_Witness ==
    \E d \in Dest :
        /\ onAdds[d] = 2
        /\ NClose(closeLog, d) = 2
        /\ released[d] = 1
        /\ CloseReturned

\* The records in the channel buffer, oldest first.
ChanRecords == [i \in 1..Len(ch) |-> ch[i].entry]

\* C14: while a caller is between Lock and Unlock the worker is in no delivery
\* pass and starts no delivery call; a log call's send goes through exactly
\* while the channel holds fewer than ChanCap items and blocks when it is
\* full; the channel holds the latest records in their enqueue order and
\* every output is called in enqueue order.
C14_LockSuspendsDelivery ==
    [][/\ apc = "locked" => (mu = ByCaller /\ wpc # "deliver")
       /\ apc = "locked" => delivered' = delivered
       /\ Len(ch') <= ChanCap
       /\ qpc = "send" => ((ENABLED SeqSend) <=> Len(ch) < ChanCap)
       /\ ChanRecords' = SubSeq(enq', Len(enq') - Len(ch') + 1, Len(enq'))
       /\ \A d \in Dest : \A i \in 1..(Len(delivered'[d]) - 1) :
             Pos(enq', delivered'[d][i]) <= Pos(enq', delivered'[d][i + 1])
      ]_vars

\* A caller holds the lock, the worker waits for the mutex with a record in
\* hand, the channel is full and the next log call is blocked in its send.
C14_Witness ==
    /\ apc = "locked"
    /\ wpc = "lock"
    /\ Len(ch) = ChanCap
    /\ qpc = "send"

\* C19: in every state after a Close call has returned the registry is
\* empty, also when AddOutput runs concurrently with Close.
C19_ClosedManagerGainsNothing == CloseReturned => outputs = <<>>

\* C20: removeOutput(d) on a registry that holds d returns true and removes
\* one registration of d; on a registry without d it returns false and
\* changes nothing; it changes no other output's registrations, no add
\* count, and calls no LogClose or CloseFunc.
C20_RemoveOneRegistration ==
    [][(apc = "idle" /\ apc' \in {"ret_true", "ret_false"}) =>
          /\ apc' = "ret_true" <=> Count(outputs, ad') >= 1
          /\ apc' = "ret_true" => Count(outputs', ad') = Count(outputs, ad') - 1
          /\ apc' = "ret_false" => outputs' = outputs
          /\ \A e \in Dest \ {ad'} : Count(outputs', e) = Count(outputs, e)
          /\ UNCHANGED <<add, onAdds, released, closeLog>>]_vars

\* removeOutput has returned true for an output added twice: one of its
\* registrations remains, its add count is still 2 and it was not closed.
C20_Witness ==
    /\ apc = "ret_true"
    /\ outputs = <<ad>>
    /\ add[ad] = 2
    /\ released[ad] = 0
    /\ closeLog = <<>>

\* C12: an Output added to several managers that are all closed is released
\* exactly once, by the last LogClose: never twice, and never while a manager
\* it was added to has not yet invoked its LogClose.
C12_SharedReleasedOnce ==
    /\ sreleased <= 1
    /\ (\A m \in Managers : mpc[m] = "closed") => sreleased = 1
    /\ sreleased >= 1 => \A m \in Managers : mpc[m] \in {"dec", "closed"}

\* C13: no two delivery calls into the same Output are in progress at the
\* same time.
C13_NoOverlappingDelivery ==
    Cardinality({m \in Managers : mpc[m] = "inlog"}) <= 1

\* C15: two outputs of the pass that were created alike, with the same flags
\* and the same output type, have written the same bytes for the entry.
C15_SameConfigSameBytes ==
    \A i, j \in 1..Len(wrote) :
        (routs[i] = routs[j] /\ wrote[i].written /\ wrote[j].written)
            => wrote[i].bytes = wrote[j].bytes

\* C16: in the pass of one entry the renderer runs at most once for a pair of
\* flags and output type (stated here for the flags without F_NotSave only):
\* an output after the one that rendered the pair writes the cached bytes.
C16_RenderOncePerPair ==
    \A i, j \in 1..Len(wrote) :
        (/\ i < j
         /\ routs[i].flags = routs[j].flags
         /\ routs[i].kind = routs[j].kind
         /\ "NotSave" \notin routs[i].flags
         /\ wrote[i].fresh)
            => ~wrote[j].fresh

\* AddCompiled has been called with flags f and output type k.
Added(f, k) == \E i \in 1..Len(addLog) : addLog[i].flag = f /\ addLog[i].kind = k

\* The buffer of the first AddCompiled call with flags f and output type k.
FirstAdded(f, k) == addLog[FindCompiled(addLog, f, k)].buf

\* Compiled holds at most one entry for a pair of flags and output type.
OneEntryPerKey ==
    \A i, j \in 1..Len(compiled) :
        (compiled[i].flag = compiled[j].flag
            /\ compiled[i].kind = compiled[j].kind) => i = j

\* C17 as claimed: for every pair of flags and output type, GetCompiled
\* returns the first buffer added under the pair, and not-found when none
\* was added.
C17_FirstWriterWinsAllFlags ==
    /\ OneEntryPerKey
    /\ \A f \in FlagChoices : \A k \in Kinds :
          IF Added(f, k)
          THEN GetCompiled(compiled, f, k) = [ok |-> TRUE, buf |-> FirstAdded(f, k)]
          ELSE ~GetCompiled(compiled, f, k).ok

\* C17 amended: the same for flags without F_NotSave; with F_NotSave in the
\* flags AddCompiled stores nothing and GetCompiled returns not-found.
C17_FirstWriterWins ==
    /\ OneEntryPerKey
    /\ \A f \in FlagChoices : \A k \in Kinds :
          IF Added(f, k) /\ "NotSave" \notin f
          THEN GetCompiled(compiled, f, k) = [ok |-> TRUE, buf |-> FirstAdded(f, k)]
          ELSE ~GetCompiled(compiled, f, k).ok
    /\ \A i \in 1..Len(compiled) : "NotSave" \notin compiled[i].flag
    /\ got.ok => /\ Added(got.flag, got.kind)
                 /\ got.buf = FirstAdded(got.flag, got.kind)

\* Two buffers were added under one pair and a third under the same flags
\* with the other output type; GetCompiled has returned the first of them.
C17_Witness ==
    /\ Len(addLog) = 3
    /\ addLog[1].flag = addLog[2].flag /\ addLog[1].kind = addLog[2].kind
    /\ addLog[1].flag = addLog[3].flag /\ addLog[1].kind # addLog[3].kind
    /\ addLog[1].buf # addLog[2].buf
    /\ got = [flag |-> addLog[1].flag, kind |-> addLog[1].kind,
              ok |-> TRUE, buf |-> addLog[1].buf]

\* C18: a slice that was put into the pool is not read, written or put again
\* before pool.Get() has handed it out again.
C18_NoUseAfterPut ==
    \A i, j \in 1..Len(bufLog) :
        (/\ i < j
         /\ bufLog[i][1] = "put"
         /\ bufLog[j][2] = bufLog[i][2]
         /\ bufLog[j][1] \in {"read", "write", "put"})
            => \E k \in (i + 1)..(j - 1) : bufLog[k] = <<"get", bufLog[i][2]>>

\* The delivery call of the pass's next output runs in this step.
DeliveryCall == rpos' = rpos + 1

\* C21: a delivery call writes the record if and only if the output's log
\* level, as it is at the time of the call, is <= the record's level.
C21_WritesIffPermitted ==
    [][DeliveryCall =>
          /\ Len(wrote') = Len(wrote) + 1
          /\ Last(wrote').written
                <=> Permits(routs[rpos].level, rentry.level)]_vars

\* C22: once a record was written to a FileOutput whose file had been closed
\* from outside, the delivery pass of that record leaves the output in no
\* place of the manager's registry.
C22_ClosedFileEvicted ==
    \A d \in Dest :
        (d \in ffails /\ wpc # "deliver") => Count(outputs, d) = 0

\* t is s without one of its elements, the others in the order they have in s.
IsDeletion(t, s) ==
    \E i \in 1..Len(s) :
        t = [j \in 1..(Len(s) - 1) |-> IF j < i THEN s[j] ELSE s[j + 1]]

\* C23: the worker calls the outputs in the order of their registration
\* also after removeOutput calls: a removal leaves the remaining
\* registrations in the order they had (the registrations of one output are
\* interchangeable).
C23_RegistrationOrderKept ==
    [][(apc = "idle" /\ apc' = "ret_true") => IsDeletion(outputs', outputs)]_vars

\* C24: every blocking log call whose record was accepted into the queue
\* eventually returns, a Close call that has started eventually returns, and
\* after Close has performed the shutdown the worker's loop ends.
C24_EventuallyReturns ==
    /\ \A p \in Producers : (ppc[p] = "wait") ~> (ppc[p] = "ret_ok")
    /\ (cpc[1] # "idle") ~> (cpc[1] \in {"ret_nil", "ret_closed"})
    /\ (cpc[1] = "ret_nil") ~> (wpc = "exit")

\* How often the token t occurs in the bytes bs.
Occurs(bs, t) == Cardinality({i \in 1..Len(bs) : bs[i] = t})

\* The style in which the written JSON object bs embeds the fields fs:
\* under the key "fields" as an object or as an array, as top-level keys,
\* or not at all.
FieldStyle(bs, fs) ==
    IF \E i \in 1..(Len(bs) - 1) : bs[i] = "fields:" /\ bs[i + 1] = "{"
    THEN "object"
    ELSE IF \E i \in 1..(Len(bs) - 1) : bs[i] = "fields:" /\ bs[i + 1] = "["
    THEN "array"
    ELSE IF \E i \in 1..Len(bs) : bs[i] \in Range(fs)
    THEN "top"
    ELSE "none"

\* The i-th output of the pass has embedded the entry's fields once, in
\* the given style, or not at all when the style is "none".
EmbedsAs(i, style) ==
    /\ FieldStyle(wrote[i].bytes, rentry.fields) = style
    /\ \A t \in Range(rentry.fields) :
          Occurs(wrote[i].bytes, t) = IF style = "none" THEN 0 ELSE 1

\* C25 as claimed: the JSON renderer embeds the fields in one style, chosen
\* by the precedence top-level keys > nested object > nested array, and
\* omits them when no embedding bit is set.
C25_TopLevelFirst ==
    \A i \in 1..Len(wrote) :
        EmbedsAs(i, IF rentry.fields = <<>> THEN "none"
                    ELSE IF "Fields" \in routs[i].flags THEN "top"
                    ELSE IF "Fields_A" \in routs[i].flags THEN "object"
                    ELSE IF "Fields_B" \in routs[i].flags THEN "array"
                    ELSE "none")

\* C25 amended: the precedence is nested object (F_Fields_A) > top-level
\* keys (F_Fields) > nested array (F_Fields_B).
C25_NestedObjectFirst ==
    \A i \in 1..Len(wrote) :
        EmbedsAs(i, IF rentry.fields = <<>> THEN "none"
                    ELSE IF "Fields_A" \in routs[i].flags THEN "object"
                    ELSE IF "Fields" \in routs[i].flags THEN "top"
                    ELSE IF "Fields_B" \in routs[i].flags THEN "array"
                    ELSE "none")

\* An output with all three embedding bits has written an entry with two
\* fields, as a nested object.
C25_Witness ==
    /\ Len(wrote) >= 1
    /\ FieldBits \subseteq routs[1].flags
    /\ Len(rentry.fields) = 2
    /\ wrote[1].written
    /\ FieldStyle(wrote[1].bytes, rentry.fields) = "object"

\* The message ends with a newline.
EndsWithNewline(msg) == msg # <<>> /\ Last(msg) = "\n"

\* C26: the Text renderer with F_NewLine fails for no message, the empty
\* one included, and what it writes ends with the message, followed by one
\* newline exactly when the message does not end with a newline itself.
C26_TextNewline ==
    /\ ~panicked
    /\ \A i \in 1..Len(wrote) :
          (/\ routs[i].kind = T_Text
           /\ "NewLine" \in routs[i].flags
           /\ wrote[i].written)
              => LET tail == rentry.msg \o (IF EndsWithNewline(rentry.msg)
                                            THEN <<>> ELSE <<"\n">>)
                     bs == wrote[i].bytes
                 IN  /\ Len(bs) >= Len(tail)
                     /\ SubSeq(bs, Len(bs) - Len(tail) + 1, Len(bs)) = tail

\* C27: over any sequence of OnAdd and LogClose calls on one Output its
\* resource is released at most once.
C27_ReleasedAtMostOnce == sreleased <= 1

\* The bytes are a rendering of JSONLogFunc: a JSON object.
IsJSONRendering(bs) == bs # <<>> /\ Head(bs) = "{"

\* C28: every output of the pass that has written the entry has written a
\* rendering of the output type it was built with: a JSON object when built
\* with T_JSON, a text line when built with T_Text.
C28_WritesOwnKind ==
    \A i \in 1..Len(wrote) :
        wrote[i].written =>
            (IsJSONRendering(wrote[i].bytes) <=> routs[i].kind = T_JSON)

====
